---- MODULE Spec2Model ----
(***************************************************************************)
(* Model of examples/invoke.rs: the TracingProfiler (an append-only trace  *)
(* of (Instruction, Instant) pairs filled by the interpreter) and the      *)
(* analysis that main() runs over the trace once the invocation returned:  *)
(* the CSV dump, the per-instruction counts and timestamp lists, the       *)
(* global gas estimate, its proportional redistribution and the            *)
(* per-instruction gas lines.                                              *)
(*                                                                         *)
(* Instants and Durations are whole nanoseconds.  An f64 is modelled by    *)
(* its exact rational value num/den * 10^exp10 together with `ulps', the   *)
(* number of roundings (each of relative size at most 2^-53) the value has *)
(* accumulated.  File and console writes are taken to succeed.             *)
(***************************************************************************)
EXTENDS Integers, Sequences, FiniteSets, TLC

\* ------------------------------------------------------------------ bounds

\* Longest trace the interpreter records in one run.
MaxLen == 4

\* The opcodes that occur, in the order of the Instruction enum (derive(Ord)).
InstructionOrder == <<"A", "B">>

Instructions == {InstructionOrder[r] : r \in 1..Len(InstructionOrder)}

\* The clock readings (ns) the interpreter may hand to the profiler.
\* Profiler::trace takes whatever timestamp it is given, in any order: the
\* analysis itself guards against readings that go backwards.
Timestamps == {0, 10, 20, 35}

\* ------------------------------------------------------- Option<T> values

None == [some |-> FALSE, v |-> 0]

Some(x) == [some |-> TRUE, v |-> x]

\* ------------------------------------------------------------- f64 values

RECURSIVE Gcd(_, _)
Gcd(a, b) == IF b = 0 THEN a ELSE Gcd(b, a % b)

RECURSIVE Pow10(_)
Pow10(k) == IF k = 0 THEN 1 ELSE 10 * Pow10(k - 1)

\* Lowest terms; zero is 0/1 * 10^0.
FNorm(x) ==
    IF x.num = 0
    THEN [num |-> 0, den |-> 1, exp10 |-> 0, ulps |-> x.ulps]
    ELSE LET g == Gcd(x.num, x.den)
         IN  [num |-> x.num \div g, den |-> x.den \div g,
              exp10 |-> x.exp10, ulps |-> x.ulps]

\* `n as f64' for an integer below 2^53: exact.
FromInt(n) == [num |-> n, den |-> 1, exp10 |-> 0, ulps |-> 0]

\* a / b, rounded once.
FDiv(a, b) ==
    FNorm([num |-> a.num * b.den, den |-> a.den * b.num,
           exp10 |-> a.exp10 - b.exp10, ulps |-> a.ulps + b.ulps + 1])

\* a * b, rounded once.
FMul(a, b) ==
    FNorm([num |-> a.num * b.num, den |-> a.den * b.den,
           exp10 |-> a.exp10 + b.exp10, ulps |-> a.ulps + b.ulps + 1])

\* a + b for non-negative operands, rounded once; adding zero is exact.
FAdd(a, b) ==
    IF a.num = 0 THEN b
    ELSE IF b.num = 0 THEN a
    ELSE LET e == IF a.exp10 < b.exp10 THEN a.exp10 ELSE b.exp10
             an == a.num * Pow10(a.exp10 - e)
             bn == b.num * Pow10(b.exp10 - e)
         IN  FNorm([num |-> an * b.den + bn * a.den, den |-> a.den * b.den,
                    exp10 |-> e,
                    ulps |-> (IF a.ulps > b.ulps THEN a.ulps ELSE b.ulps) + 1])

FZero == FromInt(0)

\* ------------------------------------------------- calibration constants

\* let max_block_gas = 3600000000000f64;
max_block_gas == [num |-> 36, den |-> 1, exp10 |-> 11, ulps |-> 0]

\* Duration::from_millis(16384)
block_time_ms == 16384

\* block_time.as_nanos() as f64
block_time_nanos == [num |-> block_time_ms, den |-> 1, exp10 |-> 6, ulps |-> 0]

\* ------------------------------------------------------------- BTreeMap

Rank(k) == CHOOSE r \in 1..Len(InstructionOrder) : InstructionOrder[r] = k

\* The key a BTreeMap iteration yields first among the keys S.
FirstKey(S) == CHOOSE k \in S : \A j \in S : Rank(k) <= Rank(j)

EmptyMap == [k \in {} |-> 0]

\* Mutant of CountsIncr: the entry is set to one instead of incremented.
CountsIncrSetsOne(c, k) == [x \in DOMAIN c \cup {k} |-> IF x = k THEN 1 ELSE c[x]]

\* *counts.entry(instr).or_default() += 1u64
CountsIncr(c, k) ==
    [x \in DOMAIN c \cup {k} |->
        IF x = k THEN (IF k \in DOMAIN c THEN c[k] ELSE 0) + 1 ELSE c[x]]

\* map.entry(*instr).or_default().push(*dur)
MapPush(m, k, t) ==
    [x \in DOMAIN m \cup {k} |->
        IF x = k THEN Append(IF k \in DOMAIN m THEN m[k] ELSE <<>>, t) ELSE m[x]]

RECURSIVE SumOver(_, _)
SumOver(c, S) ==
    IF S = {} THEN 0
    ELSE LET k == CHOOSE x \in S : TRUE IN c[k] + SumOver(c, S \ {k})

\* Mutant of SumValues: the number of entries instead of their sum.
NumEntries(c) == Cardinality(DOMAIN c)

\* counts.values().sum::<u64>()
SumValues(c) == SumOver(c, DOMAIN c)

\* ------------------------------------------------------ Instant, Duration

\* Instant::checked_duration_since
checked_duration_since(later, earlier) ==
    IF later >= earlier THEN Some(later - earlier) ELSE None

\* durs == durs_sorted, for durs_sorted the sorted clone of durs
IsSorted(durs) == \A a, b \in 1..Len(durs) : a <= b => durs[a] <= durs[b]

\* -------------------------------------------------------- TracingProfiler

\* Mutant of trace_push: a sample equal to the last one is dropped.
trace_push_dedup(tr, instruction, clock) ==
    IF Len(tr) > 0 /\ tr[Len(tr)] = <<instruction, clock>>
    THEN tr
    ELSE Append(tr, <<instruction, clock>>)

\* self.trace.push((instruction, clock))
trace_push(tr, instruction, clock) == Append(tr, <<instruction, clock>>)

\* ------------------------------------------------------------------ state

VARIABLES
    pc,          \* position of main()
    panic,       \* which panic ended the run, "none" while it runs
    profiler,    \* the TracingProfiler: [clock, trace]
    calls,       \* the (instruction, timestamp) calls the interpreter made
    out,         \* what was printed, in order
    file,        \* whether trace.csv was created
    csv,         \* the rows written to trace.csv
    idx,         \* samples of the trace the aggregation loop has processed
    previous,    \* Option<Instant>: the previous-timestamp cursor
    counts,      \* BTreeMap<&Instruction, u64>
    map,         \* BTreeMap<Instruction, Vec<Instant>>
    avg_time,    \* Duration (ns)
    gas,         \* f64
    total_counts,
    verify,      \* f64
    iter,        \* keys the running BTreeMap iteration has still to yield
    cur_instr,   \* the instruction of the last cost-table iteration
    avg_ns       \* Option<Duration>: its avg_ns, once computed

vars == <<pc, panic, profiler, calls, out, file, csv, idx, previous, counts,
          map, avg_time, gas, total_counts, verify, iter, cur_instr, avg_ns>>

trace == profiler.trace

Line(kind, instr, n, f) == [kind |-> kind, instr |-> instr, n |-> n, f |-> f]

\* let mut profiler = TracingProfiler::new(); nothing is computed yet
Init ==
    /\ pc = "run"
    /\ panic = "none"
    /\ profiler = [clock |-> "Clock", trace |-> <<>>]
    /\ calls = <<>>
    /\ out = <<>>
    /\ file = FALSE
    /\ csv = <<>>
    /\ idx = 0
    /\ previous = None
    /\ counts = EmptyMap
    /\ map = EmptyMap
    /\ avg_time = 0
    /\ gas = FZero
    /\ total_counts = 0
    /\ verify = FZero
    /\ iter = {}
    /\ cur_instr = ""
    /\ avg_ns = None

Panic(why) == pc' = "panicked" /\ panic' = why

\* The interpreter dispatches an instruction and calls Profiler::trace.
Trace ==
    /\ pc = "run"
    /\ Len(trace) < MaxLen
    /\ \E instruction \in Instructions, clock \in Timestamps :
          /\ profiler' = [profiler EXCEPT
                            !.trace = trace_push(@, instruction, clock)]
          /\ calls' = Append(calls, <<instruction, clock>>)
    /\ UNCHANGED <<pc, panic, out, file, csv, idx, previous, counts, map,
                   avg_time, gas, total_counts, verify, iter, cur_instr,
                   avg_ns>>

\* invoke_export returns; println!("Result: {:?}", res.expect(""))
InvokeReturn ==
    /\ pc = "run"
    /\ \E ok \in BOOLEAN :
          IF ok
          THEN /\ pc' = "print_instructions"
               /\ out' = Append(out, Line("result", "", 0, FZero))
               /\ UNCHANGED panic
          ELSE /\ Panic("expect_res")
               /\ UNCHANGED out
    /\ UNCHANGED <<profiler, calls, file, csv, idx, previous, counts, map,
                   avg_time, gas, total_counts, verify, iter, cur_instr,
                   avg_ns>>

\* println!("instructions: {:?}", profiler.trace.len())
PrintInstructions ==
    /\ pc = "print_instructions"
    /\ out' = Append(out, Line("instructions", "", Len(trace), FZero))
    /\ pc' = "create_file"
    /\ UNCHANGED <<panic, profiler, calls, file, csv, idx, previous, counts,
                   map, avg_time, gas, total_counts, verify, iter, cur_instr,
                   avg_ns>>

\* the locals of the aggregation and File::create("trace.csv")
CreateFile ==
    /\ pc = "create_file"
    /\ map' = EmptyMap
    /\ file' = TRUE
    /\ csv' = <<>>
    /\ previous' = None
    /\ counts' = EmptyMap
    /\ idx' = 0
    /\ pc' = "aggregate"
    /\ UNCHANGED <<panic, profiler, calls, out, avg_time, gas, total_counts,
                   verify, iter, cur_instr,
                   avg_ns>>

\* The row written for a sample, given the cursor before it.
CsvRow(instr, dur, prev) ==
    IF prev.some
    THEN [instr |-> instr, ts |-> dur, ret |-> checked_duration_since(dur, prev.v)]
    ELSE [instr |-> instr, ts |-> dur, ret |-> prev]

\* Mutant of NextPrevious: the cursor is set once and never moved.
NextPreviousStale(prev, dur) == IF prev.some THEN prev ELSE Some(dur)

\* *previous = *dur, or previous = Some(*dur) for the first sample
NextPrevious(prev, dur) == Some(dur)

\* one iteration of `for (instr, dur) in &profiler.trace'
AggregateSample ==
    /\ pc = "aggregate"
    /\ idx < Len(trace)
    /\ LET instr == trace[idx + 1][1]
           dur   == trace[idx + 1][2]
       IN  /\ counts' = CountsIncr(counts, instr)
           /\ csv' = Append(csv, CsvRow(instr, dur, previous))
           /\ previous' = NextPrevious(previous, dur)
           /\ map' = MapPush(map, instr, dur)
    /\ idx' = idx + 1
    /\ UNCHANGED <<pc, panic, profiler, calls, out, file, avg_time, gas,
                   total_counts, verify, iter, cur_instr,
                   avg_ns>>

\* Instant::duration_since: the elapsed time, for an `earlier' that is later
\* than `later' either zero (the saturating releases of the clock crate) or
\* a panic, here None (the older releases).
duration_since(later, earlier, saturates) ==
    IF later >= earlier THEN Some(later - earlier)
    ELSE IF saturates THEN Some(0) ELSE None

\* Duration / u32: whole nanoseconds, truncated.
DurationDiv(d, n) == d \div n

\* time.as_nanos() as f64 / block_time.as_nanos() as f64 * max_block_gas
GasOf(nanos) == FMul(FDiv(FromInt(nanos), block_time_nanos), max_block_gas)

\* let avg_time = trace.last().unwrap().1.duration_since(
\*     trace.first().unwrap().1) / trace.len() as u32;  dbg!(&avg_time)
AvgTime ==
    /\ pc = "aggregate"
    /\ idx = Len(trace)
    /\ IF Len(trace) = 0
       THEN /\ Panic("unwrap_none")
            /\ UNCHANGED <<avg_time, out>>
       ELSE \E saturates \in BOOLEAN :
              LET since == duration_since(trace[Len(trace)][2], trace[1][2],
                                          saturates)
              IN  IF since.some
                  THEN /\ avg_time' = DurationDiv(since.v, Len(trace))
                       /\ out' = Append(out, Line("dbg_avg_time", "",
                                                  avg_time', FZero))
                       /\ pc' = "compute_gas"
                       /\ UNCHANGED panic
                  ELSE /\ Panic("duration_since")
                       /\ UNCHANGED <<avg_time, out>>
    /\ UNCHANGED <<profiler, calls, file, csv, idx, previous, counts, map,
                   gas, total_counts, verify, iter, cur_instr,
                   avg_ns>>

\* let gas = avg_time.as_nanos() as f64 / block_time.as_nanos() as f64
\*           * max_block_gas
ComputeGas ==
    /\ pc = "compute_gas"
    /\ gas' = GasOf(avg_time)
    /\ pc' = "check_elapsed"
    /\ UNCHANGED <<panic, profiler, calls, out, file, csv, idx, previous,
                   counts, map, avg_time, total_counts, verify, iter, cur_instr,
                   avg_ns>>

\* What start.elapsed() may have measured (ns): nothing, or something.
ElapsedSamples == {0, 35}

\* the two totals are printed, then assert!(elapsed > instr_total_ns) with
\* instr_total_ns still zero
CheckElapsed ==
    /\ pc = "check_elapsed"
    /\ \E elapsed \in ElapsedSamples :
          /\ out' = out \o <<Line("invoke_time", "", elapsed, FZero),
                             Line("instruction_time", "", 0, FZero)>>
          /\ IF elapsed > 0
             THEN pc' = "print_gas" /\ UNCHANGED panic
             ELSE Panic("assert_elapsed")
    /\ UNCHANGED <<profiler, calls, file, csv, idx, previous, counts, map,
                   avg_time, gas, total_counts, verify, iter, cur_instr,
                   avg_ns>>

\* startup overhead, startup proportion and println!("gas = {}", gas)
PrintGas ==
    /\ pc = "print_gas"
    /\ out' = out \o <<Line("startup_overhead", "", 0, FZero),
                       Line("startup_proportion", "", 0, FZero),
                       Line("gas", "", 0, gas)>>
    /\ pc' = "sum_counts"
    /\ UNCHANGED <<panic, profiler, calls, file, csv, idx, previous, counts,
                   map, avg_time, gas, total_counts, verify, iter, cur_instr,
                   avg_ns>>

\* let mut verify = 0f64; let total_counts = counts.values().sum::<u64>()
SumCounts ==
    /\ pc = "sum_counts"
    /\ verify' = FZero
    /\ total_counts' = SumValues(counts)
    /\ iter' = DOMAIN counts
    /\ pc' = "adjust"
    /\ UNCHANGED <<panic, profiler, calls, out, file, csv, idx, previous,
                   counts, map, avg_time, gas, cur_instr, avg_ns>>

\* let proportion = count as f64 / total_counts as f64
Proportion(count, total) == FDiv(FromInt(count), FromInt(total))

\* let adjusted_gas = gas * proportion
AdjustedGas(g, count, total) == FMul(g, Proportion(count, total))

\* one iteration of `for (instr, count) in counts'
AdjustGas ==
    /\ pc = "adjust"
    /\ iter # {}
    /\ LET instr == FirstKey(iter)
           adjusted_gas == AdjustedGas(gas, counts[instr], total_counts)
       IN  /\ verify' = FAdd(verify, adjusted_gas)
           /\ out' = Append(out, Line("adjusted_gas", instr, 0, adjusted_gas))
           /\ iter' = iter \ {instr}
    /\ UNCHANGED <<pc, panic, profiler, calls, file, csv, idx, previous,
                   counts, map, avg_time, gas, total_counts,
                   cur_instr, avg_ns>>

\* dbg!(verify), then the cost-table loop starts over `map'
DbgVerify ==
    /\ pc = "adjust"
    /\ iter = {}
    /\ out' = Append(out, Line("dbg_verify", "", 0, verify))
    /\ iter' = DOMAIN map
    /\ pc' = "cost_table"
    /\ UNCHANGED <<panic, profiler, calls, file, csv, idx, previous, counts,
                   map, avg_time, gas, total_counts, verify,
                   cur_instr, avg_ns>>

\* Mutant of AvgSpacing: divides by the number of intervals, not of samples.
AvgSpacingPerInterval(durs) ==
    DurationDiv(duration_since(durs[Len(durs)], durs[1], TRUE).v, Len(durs) - 1)

\* durs.last().unwrap().duration_since(*durs.first().unwrap())
\*     / durs.len().try_into().unwrap()
AvgSpacing(durs) ==
    DurationDiv(duration_since(durs[Len(durs)], durs[1], TRUE).v, Len(durs))

\* Mutant of HasEnoughSamples: the threshold is off by one.
HasAnySample(durs) == Len(durs) >= 1

\* if durs.len() >= 2
HasEnoughSamples(durs) == Len(durs) >= 2

\* one iteration of `for (instr, mut durs) in map': the sortedness
\* assertion, the average spacing or todo!(), and the gas line
CostTableEntry ==
    /\ pc = "cost_table"
    /\ iter # {}
    /\ LET instr == FirstKey(iter)
           durs  == map[instr]
       IN  /\ cur_instr' = instr
           /\ IF ~IsSorted(durs)
                THEN /\ Panic("assert_sorted")
                     /\ avg_ns' = None
                     /\ UNCHANGED <<out, iter>>
                ELSE IF HasEnoughSamples(durs)
                THEN /\ avg_ns' = Some(AvgSpacing(durs))
                     /\ out' = Append(out, Line("instr_gas", instr, 0,
                                                GasOf(avg_ns'.v)))
                     /\ iter' = iter \ {instr}
                     /\ UNCHANGED <<pc, panic>>
                ELSE /\ Panic("todo")
                     /\ avg_ns' = None
                     /\ UNCHANGED <<out, iter>>
    /\ UNCHANGED <<profiler, calls, file, csv, idx, previous, counts, map,
                   avg_time, gas, total_counts, verify>>

\* the cost-table loop is over and main returns
Return ==
    /\ pc = "cost_table"
    /\ iter = {}
    /\ pc' = "done"
    /\ UNCHANGED <<panic, profiler, calls, out, file, csv, idx, previous,
                   counts, map, avg_time, gas, total_counts, verify, iter,
                   cur_instr, avg_ns>>

Next ==
    \/ Trace
    \/ InvokeReturn
    \/ PrintInstructions
    \/ CreateFile
    \/ AggregateSample
    \/ AvgTime
    \/ ComputeGas
    \/ CheckElapsed
    \/ PrintGas
    \/ SumCounts
    \/ AdjustGas
    \/ DbgVerify
    \/ CostTableEntry
    \/ Return

Spec == Init /\ [][Next]_vars

\* ------------------------------------------------- what the claims speak of

\* The positions of the trace that hold instruction k.
Occ(tr, k) == {i \in 1..Len(tr) : tr[i][1] = k}

MinOf(S) == CHOOSE x \in S : \A y \in S : x <= y

MaxOf(S) == CHOOSE x \in S : \A y \in S : x >= y

\* The timestamps of instruction k, in trace order.
TsOf(tr, k) ==
    LET sub == SelectSeq(tr, LAMBDA p : p[1] = k)
    IN  [i \in 1..Len(sub) |-> sub[i][2]]

NonDecreasing(ts) == \A i \in 1..(Len(ts) - 1) : ts[i] <= ts[i + 1]

\* Some instruction's timestamps go backwards.
NonMonotonic(tr) == \E k \in Instructions : ~NonDecreasing(TsOf(tr, k))

\* The pass over the trace is over (the run may have ended since).
AggregationDone ==
    /\ file
    /\ idx = Len(trace)
    /\ pc \notin {"run", "print_instructions", "create_file"}
    /\ panic # "expect_res"

\* The proportional redistribution is over and `verify' is final.
RedistributionDone ==
    \/ pc \in {"cost_table", "done"}
    \/ panic \in {"assert_sorted", "todo"}

\* The lines of one kind printed so far.
Printed(kind) == {i \in 1..Len(out) : out[i].kind = kind}

GasKinds == {"gas", "adjusted_gas", "instr_gas"}

GasEmitted == \E i \in 1..Len(out) : out[i].kind \in GasKinds

\* ------------------------------------------------------------------- C1

\* C1: once the aggregation pass over a non-empty trace is over, the sample
\* count that was printed is the length of the trace, the per-instruction
\* counts sum to it (and so does total_counts once it is computed), and
\* each instruction's count is the number of its occurrences in the trace.
C1_CountsSumToTraceLength ==
    (AggregationDone /\ Len(trace) > 0) =>
        /\ \A i \in Printed("instructions") : out[i].n = Len(trace)
        /\ Printed("instructions") # {}
        /\ SumValues(counts) = Len(trace)
        /\ DOMAIN counts = {k \in Instructions : Occ(trace, k) # {}}
        /\ \A k \in DOMAIN counts : counts[k] = Cardinality(Occ(trace, k))
        /\ RedistributionDone => total_counts = Len(trace)

\* A four-sample trace of both instructions, three of one and one of the
\* other, has been aggregated and its counts summed.
C1_Witness ==
    /\ pc = "adjust"
    /\ Len(trace) = 4
    /\ DOMAIN counts = {"A", "B"}
    /\ counts["A"] = 3
    /\ total_counts = 4

\* ------------------------------------------------------------------- C2

\* C2: the trace is at all times exactly the sequence of (instruction,
\* timestamp) calls the interpreter made, in order; a call appends its pair
\* and changes nothing else of the profiler or of the program, it does not
\* end the run, and nothing but a call changes the profiler.
C2_RecordAppendsOnly ==
    [][ /\ (trace = calls) => (trace' = calls')
        /\ (calls' # calls) =>
              /\ Len(calls') = Len(calls) + 1
              /\ trace' = Append(trace, calls'[Len(calls')])
              /\ \A i \in 1..Len(trace) : trace'[i] = trace[i]
              /\ profiler'.clock = profiler.clock
              /\ pc' = "run" /\ panic' = "none"
              /\ UNCHANGED <<out, file, csv, idx, previous, counts, map,
                             avg_time, gas, total_counts, verify, iter,
                             cur_instr, avg_ns>>
        /\ (profiler' # profiler) => (calls' # calls)
      ]_vars

\* Three calls were recorded, two of them the very same pair and the third
\* with an earlier timestamp, and the trace holds all three in call order.
C2_Witness ==
    /\ Len(calls) = 3
    /\ trace = calls
    /\ calls[1] = calls[2]
    /\ calls[3][2] < calls[2][2]

\* ------------------------------------------------------------------- C3

\* The run is over: main returned or panicked.
RunEnded == pc \in {"done", "panicked"}

\* The run was cut short by something other than the analysis of the trace:
\* the invocation failed, the clock library panicked on the global span, or
\* the elapsed-time assertion failed.
CutShort == panic \in {"expect_res", "duration_since", "assert_elapsed"}

\* C3: a run that ended (and was not cut short) ended with the sortedness
\* assertion failing exactly if some instruction's timestamps, in trace
\* order, are not non-decreasing.
C3_NonMonotonicAlwaysRaised ==
    (RunEnded /\ ~CutShort) =>
        (NonMonotonic(trace) <=> panic = "assert_sorted")

\* ------------------------------------------------------------------- C4

\* C4: when the run stops on an anomaly (the sortedness assertion or an
\* instruction with fewer than two samples), no gas value has been printed:
\* neither the global gas, nor an adjusted gas, nor a per-instruction gas.
C4_NoGasBeforeAnomaly ==
    (panic \in {"assert_sorted", "todo"}) => ~GasEmitted

\* ------------------------------------------------------------------- C5

\* C5: when the run fails on an empty trace, nothing was produced before the
\* failure: no trace.csv, no row, no sample count, no gas value.
C5_EmptyTraceNoOutput ==
    (panic = "unwrap_none") =>
        /\ ~file
        /\ csv = <<>>
        /\ Printed("instructions") = {}
        /\ ~GasEmitted

\* ------------------------------------------------------------------- C6

FirstTs(tr, k) == tr[MinOf(Occ(tr, k))][2]

LastTs(tr, k) == tr[MaxOf(Occ(tr, k))][2]

CountOf(tr, k) == Cardinality(Occ(tr, k))

\* The aggregation holds, for each instruction of the trace, its timestamps
\* from the first occurrence to the last, one per occurrence.
StatsMatchTrace ==
    /\ DOMAIN map = {k \in Instructions : Occ(trace, k) # {}}
    /\ \A k \in DOMAIN map :
          /\ Len(map[k]) = CountOf(trace, k)
          /\ map[k][1] = FirstTs(trace, k)
          /\ map[k][Len(map[k])] = LastTs(trace, k)

\* [(A,t0), (B,t0+10), (A,t0+20), (B,t0+35)] with t0 = 0, in nanoseconds
Scenario == <<<<"A", 0>>, <<"B", 10>>, <<"A", 20>>, <<"B", 35>>>>

\* C8 as stated: first, last and count are those of the trace, and the
\* average spacing computed for an instruction is (last - first) / count
\* exactly, without rounding.
C8_AverageSpacingExact ==
    AggregationDone =>
        /\ StatsMatchTrace
        /\ avg_ns.some =>
              avg_ns.v * CountOf(trace, cur_instr) =
                  LastTs(trace, cur_instr) - FirstTs(trace, cur_instr)

\* C8 as amended: first, last and count are those of the trace, and the
\* average spacing computed for an instruction is (last - first) / count
\* truncated to a whole number of nanoseconds; on the scenario trace the
\* statistics are A = {2, 0, 20}, B = {2, 10, 35} and the averages are
\* A = 10 and B = 12.
C8_AverageSpacingTruncated ==
    AggregationDone =>
        /\ StatsMatchTrace
        /\ avg_ns.some =>
              /\ CountOf(trace, cur_instr) >= 2
              /\ avg_ns.v =
                    (LastTs(trace, cur_instr) - FirstTs(trace, cur_instr))
                        \div CountOf(trace, cur_instr)
        /\ (trace = Scenario) =>
              /\ map = [k \in {"A", "B"} |->
                           IF k = "A" THEN <<0, 20>> ELSE <<10, 35>>]
              /\ (avg_ns.some /\ cur_instr = "A") => avg_ns.v = 10
              /\ (avg_ns.some /\ cur_instr = "B") => avg_ns.v = 12

\* The scenario trace ran to the end; the last average computed, B's, is 12.
C8_Witness ==
    /\ trace = Scenario
    /\ pc = "done"
    /\ cur_instr = "B"
    /\ avg_ns = Some(12)
    /\ Cardinality(Printed("instr_gas")) = 2

\* ------------------------------------------------------------------- C9

\* The same exact value.
ExactEq(a, b) ==
    LET e == IF a.exp10 < b.exp10 THEN a.exp10 ELSE b.exp10
    IN  a.num * Pow10(a.exp10 - e) * b.den = b.num * Pow10(b.exp10 - e) * a.den

\* Roundings that together stay below a relative error of 2^-23 (< 1e-6).
ToleranceUlps == 2^30

\* The two f64 agree within the tolerance: their exact values are equal and
\* the roundings they accumulated stay within ToleranceUlps.
WithinTolerance(a, b) == ExactEq(a, b) /\ a.ulps + b.ulps <= ToleranceUlps

\* C9: for a trace of at least two samples, once the redistribution loop is
\* over, the sum `verify' of gas * count / total_counts over the observed
\* instructions equals the global estimate `gas' within the tolerance.
C9_RedistributionSumsToGas ==
    (RedistributionDone /\ Len(trace) >= 2) => WithinTolerance(verify, gas)

\* A positive global estimate was redistributed over two instructions with
\* different counts, and the sum went through roundings of its own.
C9_Witness ==
    /\ RedistributionDone
    /\ Len(trace) = 4
    /\ gas.num > 0
    /\ DOMAIN counts = {"A", "B"}
    /\ counts["A"] = 1
    /\ verify.ulps > gas.ulps

\* ------------------------------------------------------------------ C10

\* Rows and samples correspond one to one, in order, and the cursor holds
\* the timestamp of the last processed sample.
RowsFollowTrace ==
    /\ Len(csv) = idx
    /\ AggregationDone => Len(csv) = Len(trace)
    /\ \A i \in 1..Len(csv) :
          csv[i].instr = trace[i][1] /\ csv[i].ts = trace[i][2]
    /\ previous = IF idx = 0 THEN None ELSE Some(trace[idx][2])
    /\ Len(csv) >= 1 => csv[1].ret = None

\* C10 as stated: one row per sample in trace order, the first with the
\* absent marker, every other with a present elapsed value, its timestamp
\* minus that of the sample before it.
C10_EveryLaterRowHasElapsed ==
    /\ RowsFollowTrace
    /\ \A i \in 2..Len(csv) :
          csv[i].ret = Some(trace[i][2] - trace[i - 1][2])

\* C10 as amended: one row per sample in trace order, the first with the
\* absent marker, every other with its timestamp minus that of the sample
\* before it when that is not negative, and with the absent marker when its
\* timestamp is earlier than that of the sample before it.
C10_LaterRowsCheckedElapsed ==
    /\ RowsFollowTrace
    /\ \A i \in 2..Len(csv) :
          csv[i].ret = IF trace[i][2] >= trace[i - 1][2]
                       THEN Some(trace[i][2] - trace[i - 1][2])
                       ELSE None

\* Three rows were written: the second with an elapsed value, the third,
\* whose timestamp goes backwards, with the absent marker.
C10_Witness ==
    /\ AggregationDone
    /\ Len(csv) = 3
    /\ csv[2].ret.some /\ csv[2].ret.v > 0
    /\ ~csv[3].ret.some
====
